---- MODULE Spec2Model ----
(***************************************************************************)
(* State-machine model of the YouTube channel batch downloader:            *)
(*   batch_download_channels.py  (read_channel_list, save_batch_results,   *)
(*                                main)                                    *)
(*   yt_downloader.py            (YTDownloader)                            *)
(* Strings are sequences of one-character strings.  Optional values        *)
(* (Python None) are sequences of length 0 or 1: <<>> is None, <<x>> is x. *)
(* The external extraction library (yt_dlp) and the file system are the    *)
(* environment: their outcomes are chosen nondeterministically.            *)
(***************************************************************************)
EXTENDS Integers, Sequences, FiniteSets, TLC

VARIABLES
    pc,              \* position of the batch process in main()
    exit_code,       \* <<>> while running, <<c>> once the process has exited
    file,            \* the channel-list file: [state, lines]
    args,            \* parsed command line: max_channels, start_from, max_videos
    channels,        \* main: channels (list of <<name, url>>)
    idx,             \* main: number of channels taken by the for loop so far
    stats,           \* YTDownloader.stats
    all_results,     \* main: all_results (insertion-ordered dict)
    failed_channels, \* main: failed_channels
    enum_raised,     \* get_channel_videos: its except branch ran for this channel
    video_urls,      \* download_from_channel: video_urls
    results,         \* download_from_channel: results
    vidx,            \* download_from_channel: videos taken by the for loop
    checkpoint,      \* content of batch_results_checkpoint.json
    final,           \* content of batch_results_final.json
    dirs,            \* per-video output directories that exist
    metaFiles,       \* per-video metadata files completely written
    save_failed,     \* the output files whose last save_batch_results logged an error
    rd,              \* read_channel_list run line by line: [text, lines, line_num, channels]
    en,              \* get_channel_videos run entry by entry: [entries, max_videos, i, video_urls, done]
    dl,              \* download_from_channel run call by call: [sleep_interval, max_sleep_interval, m, idx, at, trace]
    dv               \* download_video_audio run step by step: [url, at, video_id, lib_calls, dir_made, result]

vars == <<pc, exit_code, file, args, channels, idx, stats, all_results,
          failed_channels, enum_raised, video_urls, results, vidx, checkpoint, final,
          dirs, metaFiles, save_failed, rd, en, dl, dv>>

batchVars == <<pc, exit_code, file, args, channels, idx, stats, all_results,
               failed_channels, enum_raised, video_urls, results, vidx, checkpoint, final,
               dirs, metaFiles, save_failed>>

(***************************************************************************)
(* Bounds of the model.                                                    *)
(***************************************************************************)
MaxChannels == 2      \* lines of the channel-list file in a batch run
MaxVideos == 2        \* videos enumerated in a batch run, over all its channels
MaxEntries == 2       \* entries of an enumeration given to the entry-by-entry run
MaxFileLen == 5       \* characters of a file given to the line-by-line reader
MaxPaced == 3         \* video URLs of a channel given to the call-by-call run
MaxSleep == 2         \* largest --sleep-min and --sleep-max, in seconds
MaxToken == 12        \* characters of the token of a URL given to the step-by-step download

(***************************************************************************)
(* Python values.                                                          *)
(***************************************************************************)
None == <<>>
Some(x) == <<x>>
\* Python truthiness of an Optional[int]: None and 0 are falsy.
Truthy(opt) == opt # None /\ opt[1] # 0

Min(a, b) == IF a <= b THEN a ELSE b
Max(a, b) == IF a >= b THEN a ELSE b

\* seq[:m] for an int m (a negative m counts from the end).
SliceTo(seq, m) ==
    IF m >= 0 THEN SubSeq(seq, 1, Min(m, Len(seq)))
    ELSE SubSeq(seq, 1, Max(Len(seq) + m, 0))

\* seq[s:] for an int s >= 0.
SliceFrom(seq, s) == SubSeq(seq, Min(s, Len(seq)) + 1, Len(seq))

(***************************************************************************)
(* str.strip, "in", str.split(',', 1).                                     *)
(***************************************************************************)
IsSpace(c) == c \in {" ", "\n"}

RECURSIVE LStrip(_)
LStrip(s) == IF s # <<>> /\ IsSpace(Head(s)) THEN LStrip(Tail(s)) ELSE s

RECURSIVE RStrip(_)
RStrip(s) ==
    IF s # <<>> /\ IsSpace(s[Len(s)]) THEN RStrip(SubSeq(s, 1, Len(s) - 1)) ELSE s

Strip(s) == RStrip(LStrip(s))

Contains(s, c) == \E i \in 1..Len(s) : s[i] = c

StartsWith(s, c) == s # <<>> /\ s[1] = c

\* Index of the first occurrence of c in s at or after i; 0 when there is none.
RECURSIVE Find(_, _, _)
Find(s, c, i) ==
    IF i > Len(s) THEN 0
    ELSE IF s[i] = c THEN i
    ELSE Find(s, c, i + 1)

\* A split at the last occurrence of c instead of the first.
SplitLast1(s, c) ==
    LET k == CHOOSE j \in 0..Len(s) :
                 /\ (j = 0 => ~Contains(s, c))
                 /\ (j > 0 => s[j] = c /\ \A m \in (j + 1)..Len(s) : s[m] # c)
    IN  IF k = 0 THEN <<s>> ELSE <<SubSeq(s, 1, k - 1), SubSeq(s, k + 1, Len(s))>>

\* s.split(c, 1): at most one split, at the first occurrence of c.
Split1(s, c) ==
    LET k == Find(s, c, 1)
    IN  IF k = 0 THEN <<s>> ELSE <<SubSeq(s, 1, k - 1), SubSeq(s, k + 1, Len(s))>>

(***************************************************************************)
(* read_channel_list: the body of the for loop for one line.  The result   *)
(* is the list of channels after the line.                                 *)
(***************************************************************************)
ParseLine(chans, rawline) ==
    LET line == Strip(rawline)
    IN  IF line = <<>> \/ StartsWith(line, "#") THEN chans
        ELSE IF Contains(line, ",")
             THEN LET parts == Split1(line, ",")
                  IN  IF Len(parts) = 2
                      THEN Append(chans, <<Strip(parts[1]), Strip(parts[2])>>)
                      ELSE chans
             ELSE chans

\* The whole for loop over the lines of the file.
RECURSIVE ParseLines(_, _)
ParseLines(chans, lines) ==
    IF lines = <<>> THEN chans
    ELSE ParseLines(ParseLine(chans, Head(lines)), Tail(lines))

(***************************************************************************)
(* dict: an insertion-ordered mapping, as a sequence of [k, v] items.      *)
(***************************************************************************)
DictHas(d, k) == \E i \in 1..Len(d) : d[i].k = k

DictGet(d, k) == d[CHOOSE i \in 1..Len(d) : d[i].k = k].v

\* d[k] = v: a new key is appended, an existing key keeps its place.
DictSet(d, k, v) ==
    IF DictHas(d, k)
    THEN [i \in 1..Len(d) |-> IF d[i].k = k THEN [k |-> k, v |-> v] ELSE d[i]]
    ELSE Append(d, [k |-> k, v |-> v])

\* sum(1 for r in results if r['status'] == st)
RECURSIVE CountStatus(_, _)
CountStatus(rs, st) ==
    IF rs = <<>> THEN 0
    ELSE (IF Head(rs).status = st THEN 1 ELSE 0) + CountStatus(Tail(rs), st)

(***************************************************************************)
(* YTDownloader.get_channel_videos.  An entry of the library's enumeration *)
(* is None, a dict without 'id' or a dict with 'id'.  An id is <<k, kind>>:*)
(* k tells ids apart, kind tells whether the id is a token the patterns of *)
(* _extract_video_id find in the watch URL ("id11") or not ("short").      *)
(***************************************************************************)
VideoUrl(video_id) == [watch_v |-> video_id]

HasId(entry) == entry # None /\ "id" \in DOMAIN entry

\* One iteration of the loop over result['entries'], up to the break test.
AppendEntry(acc, entry) ==
    IF HasId(entry) THEN Append(acc, VideoUrl(entry.id)) ELSE acc

\* The break test of that iteration (acc2 is the list after the append).
BreakAfter(acc2, entry, max_videos) ==
    HasId(entry) /\ Truthy(max_videos) /\ Len(acc2) >= max_videos[1]

RECURSIVE CollectUrls(_, _, _)
CollectUrls(entries, acc, max_videos) ==
    IF entries = <<>> THEN acc
    ELSE LET acc2 == AppendEntry(acc, Head(entries))
         IN  IF BreakAfter(acc2, Head(entries), max_videos) THEN acc2
             ELSE CollectUrls(Tail(entries), acc2, max_videos)

\* What ydl.extract_info(channel_url, download=False) does: it raises, returns
\* None (ignoreerrors), returns a dict without 'entries', or returns entries.
EntryChoices(k) ==
    {None, [title |-> "t"], [id |-> <<k, "id11">>], [id |-> <<k, "short">>]}

EntryLists(maxlen) ==
    UNION {{e \in [1..n -> UNION {EntryChoices(k) : k \in 1..maxlen}] :
               \A k \in 1..n : e[k] \in EntryChoices(k)} : n \in 0..maxlen}

EnumOutcomes(maxlen) ==
    {[kind |-> "raise"], [kind |-> "none"], [kind |-> "noentries"]}
        \cup {[kind |-> "entries", entries |-> e] : e \in EntryLists(maxlen)}

\* Whether the except branch of get_channel_videos runs: extract_info raised,
\* or it returned None and the test "'entries' not in result" raised.
EnumRaises(outcome) == outcome.kind \in {"raise", "none"}

\* get_channel_videos, given what the library does.
GetChannelVideos(outcome, max_videos) ==
    IF outcome.kind = "entries"
    THEN CollectUrls(outcome.entries, <<>>, max_videos)
    ELSE <<>>

(***************************************************************************)
(* YTDownloader._extract_video_id on a watch URL built by                  *)
(* get_channel_videos, and the results of download_video_audio.            *)
(***************************************************************************)
ExtractVideoId(url) ==
    IF url.watch_v[2] = "id11" THEN Some(url.watch_v) ELSE None

ExtractMetadata(info, channel_name, video_url) ==
    [video_id |-> info.id, channel_name |-> channel_name, original_url |-> video_url]

\* A result whose status is neither success nor failed.
InvalidResult_Skipped(video_url) ==
    [video_url |-> video_url, status |-> "skipped", error |-> "Invalid video URL"]

InvalidResult(video_url) ==
    [video_url |-> video_url, status |-> "failed", error |-> "Invalid video URL"]

\* A failure result that does not carry the error.
FailedResult_NoError(video_url, video_id, channel_name, e) ==
    [video_url |-> video_url, video_id |-> video_id, channel_name |-> channel_name,
     status |-> "failed"]

FailedResult(video_url, video_id, channel_name, e) ==
    [video_url |-> video_url, video_id |-> video_id, channel_name |-> channel_name,
     status |-> "failed", error |-> e]

SuccessResult(video_url, video_id, channel_name, metadata) ==
    [video_url |-> video_url, video_id |-> video_id, channel_name |-> channel_name,
     status |-> "success", output_dir |-> <<channel_name, video_id>>,
     metadata_file |-> <<channel_name, video_id, "json">>, metadata |-> metadata]

\* str(e) of an exception the library or the file system raises.
LibError == "E"
OsError == "E"
NoInfoError == "No info returned from yt-dlp"

(***************************************************************************)
(* main: the values it builds.                                             *)
(***************************************************************************)
ChannelResult(channel_url, rs) ==
    [channel_url |-> channel_url, total_videos |-> Len(rs),
     successful |-> CountStatus(rs, "success"),
     failed |-> CountStatus(rs, "failed"), videos |-> rs]

ChannelError(channel_url, e) ==
    [channel_url |-> channel_url, status |-> "error", error |-> e]

\* json.dump(results, f): the content of a completely written file.
Serialize(mapping) == [state |-> "json", data |-> mapping]
Absent == [state |-> "absent"]
Truncated == [state |-> "truncated"]

(***************************************************************************)
(* The batch process: main() of batch_download_channels.py.                *)
(***************************************************************************)
\* The channel-list files of the batch runs: a missing file, an unreadable
\* file, a file that holds only the comment "#c", and the files of up to
\* MaxChannels lines "a,u" and "b,v" (the first line is "a,u": the files that
\* start with "b,v" are these with the two channels renamed).
BatchLines == {<<"a", ",", "u">>, <<"b", ",", "v">>}

BatchFiles ==
    {[state |-> "missing", lines |-> <<>>], [state |-> "unreadable", lines |-> <<>>],
     [state |-> "ok", lines |-> << <<"#", "c">> >>]}
        \cup {[state |-> "ok", lines |-> l] :
                 l \in {f \in UNION {[1..n -> BatchLines] : n \in 0..MaxChannels} :
                           f # <<>> => f[1] = <<"a", ",", "u">>}}

\* --max-channels, --start-from, --max-videos-per-channel
BatchArgs ==
    [max_channels : {None, Some(0), Some(1)},
     start_from : {0, 1, MaxChannels},
     max_videos : {None, Some(1)}]

RdIdle == [text |-> <<>>, lines |-> <<>>, line_num |-> 0, channels |-> <<>>]
EnIdle == [entries |-> <<>>, max_videos |-> None, i |-> 0, video_urls |-> <<>>, done |-> TRUE]
DlIdle == [sleep_interval |-> 0, max_sleep_interval |-> 0, m |-> 0, idx |-> 0,
           at |-> "returned", trace |-> <<>>]
DvIdle == [url |-> <<>>, at |-> "returned", video_id |-> None, lib_calls |-> 0,
           dir_made |-> FALSE, result |-> None]

Init ==
    /\ pc = "main"
    /\ exit_code = None
    /\ file \in BatchFiles
    /\ args \in BatchArgs
    /\ channels = <<>>
    /\ idx = 0
    /\ stats = None
    /\ all_results = <<>>
    /\ failed_channels = <<>>
    /\ enum_raised = FALSE
    /\ video_urls = <<>>
    /\ results = <<>>
    /\ vidx = 0
    /\ checkpoint = Absent
    /\ final = Absent
    /\ dirs = {}
    /\ metaFiles = {}
    /\ save_failed = {}
    /\ rd = RdIdle
    /\ en = EnIdle
    /\ dl = DlIdle
    /\ dv = DvIdle

\* sys.exit(code), or the interpreter ending on an uncaught exception (code 1)
Exit(code) == pc' = "exit" /\ exit_code' = Some(code)

\* read_channel_list(args.channels_file) and the test "if not channels"
ReadChannelList ==
    /\ pc = "main"
    /\ IF file.state # "ok"
       THEN Exit(1) /\ UNCHANGED channels
       ELSE /\ channels' = ParseLines(<<>>, file.lines)
            /\ IF channels' = <<>>
               THEN Exit(1)
               ELSE pc' = "limits" /\ UNCHANGED exit_code
    /\ UNCHANGED <<file, args, idx, stats, all_results, failed_channels, enum_raised, video_urls,
                   results, vidx, checkpoint, final, dirs, metaFiles, save_failed, rd, en, dl, dv>>

\* The channel list after "Apply max_channels limit" and "Apply start_from offset"
LimitedChannels(chans, a) ==
    LET capped == IF Truthy(a.max_channels)
                  THEN SliceTo(chans, a.max_channels[1])
                  ELSE chans
    IN  IF a.start_from > 0 THEN SliceFrom(capped, a.start_from) ELSE capped

ApplyLimits ==
    /\ pc = "limits"
    /\ channels' = LimitedChannels(channels, args)
    /\ pc' = "construct"
    /\ UNCHANGED <<exit_code, file, args, idx, stats, all_results, failed_channels,
                   enum_raised, video_urls, results, vidx, checkpoint, final, dirs, metaFiles,
                   save_failed, rd, en, dl, dv>>

\* YTDownloader(...): output_base_dir.mkdir(exist_ok=True) raises, or the
\* downloader is built with its counters at zero; then all_results = {} and
\* failed_channels = [].
InitDownloader ==
    /\ pc = "construct"
    /\ \/ Exit(1) /\ UNCHANGED stats
       \/ /\ stats' = Some([total_videos |-> 0, successful |-> 0, failed |-> 0, skipped |-> 0])
          /\ pc' = "loop"
          /\ UNCHANGED exit_code
    /\ UNCHANGED <<file, args, channels, idx, all_results, failed_channels, enum_raised, video_urls,
                   results, vidx, checkpoint, final, dirs, metaFiles, save_failed, rd, en, dl, dv>>

\* for idx, (channel_name, channel_url) in enumerate(channels, 1)
NextChannel ==
    /\ pc = "loop"
    /\ IF idx < Len(channels)
       THEN /\ idx' = idx + 1
            /\ pc' = "enumerate"
       ELSE /\ pc' = "final_open"
            /\ UNCHANGED idx
    /\ enum_raised' = FALSE
    /\ video_urls' = <<>>
    /\ results' = <<>>
    /\ vidx' = 0
    /\ UNCHANGED <<exit_code, file, args, channels, stats, all_results, failed_channels,
                   checkpoint, final, dirs, metaFiles, save_failed, rd, en, dl, dv>>

channel_name == channels[idx][1]
channel_url == channels[idx][2]

AddStat(st, field, n) == Some([st[1] EXCEPT ![field] = @ + n])

\* download_from_channel up to its for loop: get_channel_videos, the test
\* "if not video_urls" and stats["total_videos"] += len(video_urls)
GetVideos ==
    /\ pc = "enumerate"
    /\ \E outcome \in EnumOutcomes(MaxVideos) :
          /\ video_urls' = GetChannelVideos(outcome, args.max_videos)
          /\ enum_raised' = EnumRaises(outcome)
          /\ stats[1].total_videos + Len(video_urls') <= MaxVideos
          /\ IF video_urls' = <<>>
             THEN pc' = "record" /\ UNCHANGED stats
             ELSE /\ pc' = "video"
                  /\ stats' = AddStat(stats, "total_videos", Len(video_urls'))
    /\ UNCHANGED <<exit_code, file, args, channels, idx, all_results, failed_channels,
                   results, vidx, checkpoint, final, dirs, metaFiles, save_failed, rd, en, dl, dv>>

\* The for loop of download_from_channel after download_video_audio returned
\* result: results.append(result) and the test "if idx < len(video_urls)".
VideoReturns(result) ==
    /\ results' = Append(results, result)
    /\ vidx' = vidx + 1
    /\ pc' = IF vidx + 1 < Len(video_urls) THEN "sleep" ELSE "record"
    /\ UNCHANGED <<all_results, failed_channels, enum_raised, video_urls>>

\* An except branch that lists the failed channel and records no error entry.
ChannelRaises_NoEntry(e) ==
    /\ failed_channels' = Append(failed_channels, <<channel_name, e>>)
    /\ pc' = "loop"
    /\ video_urls' = <<>>
    /\ results' = <<>>
    /\ vidx' = 0
    /\ UNCHANGED <<all_results, enum_raised>>

\* The except branch of main's loop: an exception with message e escaped
\* download_from_channel, whose frame (video_urls, results) is gone.
ChannelRaises(e) ==
    /\ failed_channels' = Append(failed_channels, <<channel_name, e>>)
    /\ all_results' = DictSet(all_results, channel_name, ChannelError(channel_url, e))
    /\ pc' = "loop"
    /\ video_urls' = <<>>
    /\ results' = <<>>
    /\ vidx' = 0
    /\ UNCHANGED enum_raised

\* One iteration of the for loop of download_from_channel:
\* download_video_audio(video_url, channel_name) and what follows it.
DownloadVideo ==
    /\ pc = "video"
    /\ LET video_url == video_urls[vidx + 1]
           video_id == ExtractVideoId(video_url)
       IN  \/ /\ video_id = None
              /\ VideoReturns(InvalidResult(video_url))
              /\ UNCHANGED <<stats, dirs, metaFiles>>
           \/ /\ video_id # None          \* video_output_dir.mkdir raises
              /\ ChannelRaises(OsError)
              /\ UNCHANGED <<stats, dirs, metaFiles>>
           \/ /\ video_id # None          \* ydl.extract_info raises
              /\ dirs' = dirs \cup {<<channel_name, video_id[1]>>}
              /\ stats' = AddStat(stats, "failed", 1)
              /\ VideoReturns(FailedResult(video_url, video_id[1], channel_name, LibError))
              /\ UNCHANGED metaFiles
           \/ /\ video_id # None          \* ydl.extract_info returns None
              /\ dirs' = dirs \cup {<<channel_name, video_id[1]>>}
              /\ stats' = AddStat(stats, "failed", 1)
              /\ VideoReturns(FailedResult(video_url, video_id[1], channel_name, NoInfoError))
              /\ UNCHANGED metaFiles
           \/ /\ video_id # None          \* writing the metadata file raises
              /\ dirs' = dirs \cup {<<channel_name, video_id[1]>>}
              /\ stats' = AddStat(stats, "failed", 1)
              /\ VideoReturns(FailedResult(video_url, video_id[1], channel_name, OsError))
              /\ UNCHANGED metaFiles
           \/ /\ video_id # None          \* info returned, metadata file written
              /\ dirs' = dirs \cup {<<channel_name, video_id[1]>>}
              /\ metaFiles' = metaFiles \cup {<<channel_name, video_id[1], "json">>}
              /\ stats' = AddStat(stats, "successful", 1)
              /\ VideoReturns(SuccessResult(video_url, video_id[1], channel_name,
                     ExtractMetadata([id |-> video_id[1]], channel_name, video_url)))
    /\ UNCHANGED <<exit_code, file, args, channels, idx, checkpoint, final, save_failed, rd, en, dl, dv>>

\* time.sleep(random.uniform(...)) between two videos
Sleep ==
    /\ pc = "sleep"
    /\ pc' = "video"
    /\ UNCHANGED <<exit_code, file, args, channels, idx, stats, all_results,
                   failed_channels, enum_raised, video_urls, results, vidx, checkpoint, final,
                   dirs, metaFiles, save_failed, rd, en, dl, dv>>

\* A main that records a failed enumeration as a channel-level error.
RecordChannel_ErrorOnRaise ==
    /\ pc = "record"
    /\ all_results' = DictSet(all_results, channel_name,
                              IF enum_raised THEN ChannelError(channel_url, LibError)
                              ELSE ChannelResult(channel_url, results))
    /\ pc' = "ckpt_open"
    /\ UNCHANGED <<exit_code, file, args, channels, idx, stats, failed_channels,
                   enum_raised, video_urls, results, vidx, checkpoint, final, dirs,
                   metaFiles, save_failed, rd, en, dl, dv>>

\* download_from_channel returned results: all_results[channel_name] = {...}
RecordChannel ==
    /\ pc = "record"
    /\ all_results' = DictSet(all_results, channel_name, ChannelResult(channel_url, results))
    /\ pc' = "ckpt_open"
    /\ UNCHANGED <<exit_code, file, args, channels, idx, stats, failed_channels,
                   enum_raised, video_urls, results, vidx, checkpoint, final, dirs, metaFiles,
                   save_failed, rd, en, dl, dv>>

CheckpointFile == "batch_results_checkpoint.json"
FinalFile == "batch_results_final.json"

\* save_batch_results(all_results, "batch_results_checkpoint.json"):
\* open(output_file, 'w') truncates the file, or raises and the error is logged
OpenCheckpoint ==
    /\ pc = "ckpt_open"
    /\ \/ checkpoint' = Truncated /\ pc' = "ckpt_write" /\ save_failed' = save_failed \ {CheckpointFile}
       \/ save_failed' = save_failed \cup {CheckpointFile} /\ pc' = "loop" /\ UNCHANGED checkpoint
    /\ UNCHANGED <<exit_code, file, args, channels, idx, stats, all_results,
                   failed_channels, enum_raised, video_urls, results, vidx, final, dirs,
                   metaFiles, rd, en, dl, dv>>

\* A checkpoint that holds the result of the current channel only.
WriteCheckpoint_OnlyCurrent ==
    /\ pc = "ckpt_write"
    /\ \/ checkpoint' = Serialize(<<[k |-> channel_name, v |-> DictGet(all_results, channel_name)]>>)
          /\ save_failed' = save_failed \ {CheckpointFile}
       \/ save_failed' = save_failed \cup {CheckpointFile} /\ UNCHANGED checkpoint
    /\ pc' = "loop"
    /\ UNCHANGED <<exit_code, file, args, channels, idx, stats, all_results,
                   failed_channels, enum_raised, video_urls, results, vidx, final, dirs,
                   metaFiles, rd, en, dl, dv>>

\* json.dump writes the whole mapping and the file is closed, or the write
\* raises and the error is logged
WriteCheckpoint ==
    /\ pc = "ckpt_write"
    /\ \/ checkpoint' = Serialize(all_results) /\ save_failed' = save_failed \ {CheckpointFile}
       \/ save_failed' = save_failed \cup {CheckpointFile} /\ UNCHANGED checkpoint
    /\ pc' = "loop"
    /\ UNCHANGED <<exit_code, file, args, channels, idx, stats, all_results,
                   failed_channels, enum_raised, video_urls, results, vidx, final, dirs,
                   metaFiles, rd, en, dl, dv>>

\* After the loop: print_stats, the failed channels, and
\* save_batch_results(all_results, "batch_results_final.json")
OpenFinal ==
    /\ pc = "final_open"
    /\ \/ final' = Truncated /\ pc' = "final_write" /\ save_failed' = save_failed \ {FinalFile}
                             /\ UNCHANGED exit_code
       \/ save_failed' = save_failed \cup {FinalFile} /\ Exit(0) /\ UNCHANGED final
    /\ UNCHANGED <<file, args, channels, idx, stats, all_results, failed_channels,
                   enum_raised, video_urls, results, vidx, checkpoint, dirs, metaFiles, rd, en, dl, dv>>

WriteFinal ==
    /\ pc = "final_write"
    /\ \/ final' = Serialize(all_results) /\ save_failed' = save_failed \ {FinalFile}
       \/ save_failed' = save_failed \cup {FinalFile} /\ UNCHANGED final
    /\ Exit(0)
    /\ UNCHANGED <<file, args, channels, idx, stats, all_results, failed_channels,
                   enum_raised, video_urls, results, vidx, checkpoint, dirs, metaFiles, rd, en, dl, dv>>

\* The process is killed (an interrupt signal): main has no handler for it.
\* What the process held in memory is gone; the files stay as they are.
Interrupt ==
    /\ pc \notin {"exit", "killed"}
    /\ pc' = "killed"
    /\ channels' = <<>>
    /\ idx' = 0
    /\ stats' = None
    /\ all_results' = <<>>
    /\ failed_channels' = <<>>
    /\ enum_raised' = FALSE
    /\ video_urls' = <<>>
    /\ results' = <<>>
    /\ vidx' = 0
    /\ UNCHANGED <<exit_code, file, args, checkpoint, final, dirs, metaFiles,
                   save_failed, rd, en, dl, dv>>

Next ==
    \/ ReadChannelList
    \/ ApplyLimits
    \/ InitDownloader
    \/ NextChannel
    \/ GetVideos
    \/ DownloadVideo
    \/ Sleep
    \/ RecordChannel
    \/ OpenCheckpoint
    \/ WriteCheckpoint
    \/ OpenFinal
    \/ WriteFinal
    \/ Interrupt

Spec == Init /\ [][Next]_vars

(***************************************************************************)
(* read_channel_list run line by line on the text of a file: the for loop  *)
(* over the open file takes one line per step.                             *)
(***************************************************************************)
Alphabet == {"a", ",", "#", " ", "\n"}

Texts == UNION {[1..n -> Alphabet] : n \in 0..MaxFileLen}

\* The lines a text file yields when iterated: each ends with its "\n",
\* except a last line that has none.
RECURSIVE FileLines(_)
FileLines(text) ==
    IF text = <<>> THEN <<>>
    ELSE LET k == Find(text, "\n", 1)
         IN  IF k = 0 THEN <<text>>
             ELSE <<SubSeq(text, 1, k)>> \o FileLines(SubSeq(text, k + 1, Len(text)))

InitReader ==
    /\ pc = "reader"
    /\ exit_code = None
    /\ file = [state |-> "ok", lines |-> <<>>]
    /\ args = [max_channels |-> None, start_from |-> 0, max_videos |-> None]
    /\ channels = <<>>
    /\ idx = 0
    /\ stats = None
    /\ all_results = <<>>
    /\ failed_channels = <<>>
    /\ enum_raised = FALSE
    /\ video_urls = <<>>
    /\ results = <<>>
    /\ vidx = 0
    /\ checkpoint = Absent
    /\ final = Absent
    /\ dirs = {}
    /\ metaFiles = {}
    /\ save_failed = {}
    /\ \E text \in Texts :
          rd = [text |-> text, lines |-> FileLines(text), line_num |-> 0, channels |-> <<>>]
    /\ en = EnIdle
    /\ dl = DlIdle
    /\ dv = DvIdle

\* for line_num, line in enumerate(f, 1): one iteration
ReadLine ==
    /\ rd.line_num < Len(rd.lines)
    /\ rd' = [rd EXCEPT !.line_num = @ + 1,
                        !.channels = ParseLine(@, rd.lines[rd.line_num + 1])]
    /\ UNCHANGED <<batchVars, en, dl, dv>>

NextReader == ReadLine

SpecReader == InitReader /\ [][NextReader]_vars

(***************************************************************************)
(* get_channel_videos run entry by entry on an enumeration the library     *)
(* returned: the for loop over result['entries'] takes one entry per step. *)
(***************************************************************************)
EnumArgs == {None} \cup {Some(n) : n \in 0..MaxEntries}

InitEnum ==
    /\ pc = "enum"
    /\ exit_code = None
    /\ file = [state |-> "ok", lines |-> <<>>]
    /\ args = [max_channels |-> None, start_from |-> 0, max_videos |-> None]
    /\ channels = <<>>
    /\ idx = 0
    /\ stats = None
    /\ all_results = <<>>
    /\ failed_channels = <<>>
    /\ enum_raised = FALSE
    /\ video_urls = <<>>
    /\ results = <<>>
    /\ vidx = 0
    /\ checkpoint = Absent
    /\ final = Absent
    /\ dirs = {}
    /\ metaFiles = {}
    /\ save_failed = {}
    /\ rd = RdIdle
    /\ \E entries \in EntryLists(MaxEntries), max_videos \in EnumArgs :
          en = [entries |-> entries, max_videos |-> max_videos, i |-> 0,
                video_urls |-> <<>>, done |-> FALSE]
    /\ dl = DlIdle
    /\ dv = DvIdle

\* for entry in result['entries']: one iteration, ending with the break or
\* with the next entry
EnumEntry ==
    /\ ~en.done
    /\ en.i < Len(en.entries)
    /\ LET entry == en.entries[en.i + 1]
           acc2 == AppendEntry(en.video_urls, entry)
       IN  en' = [en EXCEPT !.i = @ + 1,
                            !.video_urls = acc2,
                            !.done = BreakAfter(acc2, entry, en.max_videos)]
    /\ UNCHANGED <<batchVars, rd, dl, dv>>

\* The loop ran out of entries: return video_urls
EnumReturn ==
    /\ ~en.done
    /\ en.i = Len(en.entries)
    /\ en' = [en EXCEPT !.done = TRUE]
    /\ UNCHANGED <<batchVars, rd, dl, dv>>

NextEnum == EnumEntry \/ EnumReturn

SpecEnum == InitEnum /\ [][NextEnum]_vars

\* The run entry by entry returns what get_channel_videos returns.
EnumAgrees ==
    (pc = "enum" /\ en.done) =>
        en.video_urls = GetChannelVideos([kind |-> "entries", entries |-> en.entries],
                                         en.max_videos)

(***************************************************************************)
(* download_from_channel run call by call: the for loop over video_urls    *)
(* with its pacing sleeps.  dl.trace is the sequence of what has happened: *)
(* <<"call", i>>, <<"return", i, status>> and <<"sleep", seconds>>.        *)
(* Seconds are integers.                                                   *)
(***************************************************************************)
\* The batch variables of a run that is not a batch run, at position p.
NoBatch(p) ==
    /\ pc = p
    /\ exit_code = None
    /\ file = [state |-> "ok", lines |-> <<>>]
    /\ args = [max_channels |-> None, start_from |-> 0, max_videos |-> None]
    /\ channels = <<>>
    /\ idx = 0
    /\ stats = None
    /\ all_results = <<>>
    /\ failed_channels = <<>>
    /\ enum_raised = FALSE
    /\ video_urls = <<>>
    /\ results = <<>>
    /\ vidx = 0
    /\ checkpoint = Absent
    /\ final = Absent
    /\ dirs = {}
    /\ metaFiles = {}
    /\ save_failed = {}

\* --sleep-min and --sleep-max: any two numbers, in any order
SleepValues == (0 - 1)..MaxSleep

\* random.uniform(a, b) is a + (b - a) * random(): a value between the two,
\* whichever is the larger.
Uniform(a, b) == Min(a, b)..Max(a, b)

InitPacing ==
    /\ NoBatch("pacing")
    /\ rd = RdIdle
    /\ en = EnIdle
    /\ \E a \in SleepValues, b \in SleepValues, m \in 0..MaxPaced :
          dl = [sleep_interval |-> a, max_sleep_interval |-> b, m |-> m, idx |-> 0,
                at |-> "start", trace |-> <<>>]
    /\ dv = DvIdle

\* get_channel_videos returned dl.m URLs: the test "if not video_urls"
DlStart ==
    /\ dl.at = "start"
    /\ dl' = [dl EXCEPT !.at = IF dl.m = 0 THEN "returned" ELSE "loop"]
    /\ UNCHANGED <<batchVars, rd, en, dv>>

\* for idx, video_url in enumerate(video_urls, 1): the next video is taken and
\* download_video_audio is called, or the loop is over and results is returned
DlCall ==
    /\ dl.at = "loop"
    /\ IF dl.idx < dl.m
       THEN dl' = [dl EXCEPT !.idx = @ + 1, !.at = "download",
                             !.trace = Append(@, <<"call", dl.idx + 1>>)]
       ELSE dl' = [dl EXCEPT !.at = "returned"]
    /\ UNCHANGED <<batchVars, rd, en, dv>>

\* A loop that sleeps after every video, the last one included.
DlReturn_SleepAfterLast ==
    /\ dl.at = "download"
    /\ \E status \in {"success", "failed"} :
          dl' = [dl EXCEPT !.trace = Append(@, <<"return", dl.idx, status>>),
                           !.at = IF dl.idx <= dl.m THEN "sleep" ELSE "loop"]
    /\ UNCHANGED <<batchVars, rd, en, dv>>

\* download_video_audio returned a result: results.append(result) and the
\* test "if idx < len(video_urls)"
DlReturn ==
    /\ dl.at = "download"
    /\ \E status \in {"success", "failed"} :
          dl' = [dl EXCEPT !.trace = Append(@, <<"return", dl.idx, status>>),
                           !.at = IF dl.idx < dl.m THEN "sleep" ELSE "loop"]
    /\ UNCHANGED <<batchVars, rd, en, dv>>

\* video_output_dir.mkdir raised inside download_video_audio: the exception
\* leaves download_from_channel
DlRaise ==
    /\ dl.at = "download"
    /\ dl' = [dl EXCEPT !.at = "raised"]
    /\ UNCHANGED <<batchVars, rd, en, dv>>

\* sleep_time = random.uniform(...); time.sleep(sleep_time), which raises
\* ValueError for a negative length
DlSleep ==
    /\ dl.at = "sleep"
    /\ \E sleep_time \in Uniform(dl.sleep_interval, dl.max_sleep_interval) :
          IF sleep_time < 0
          THEN dl' = [dl EXCEPT !.at = "raised"]
          ELSE dl' = [dl EXCEPT !.trace = Append(@, <<"sleep", sleep_time>>),
                                !.at = "loop"]
    /\ UNCHANGED <<batchVars, rd, en, dv>>

NextPacing == DlStart \/ DlCall \/ DlReturn \/ DlRaise \/ DlSleep

SpecPacing == InitPacing /\ [][NextPacing]_vars

(***************************************************************************)
(* YTDownloader._extract_video_id on the text of a URL: re.search with the *)
(* three patterns, in their order.                                         *)
(***************************************************************************)
\* {11} of the three patterns
IdLen == 11

\* [0-9A-Za-z_-]
IdChars ==
    {"a", "b", "c", "d", "e", "f", "g", "h", "i", "j", "k", "l", "m",
     "n", "o", "p", "q", "r", "s", "t", "u", "v", "w", "x", "y", "z",
     "A", "B", "C", "D", "E", "F", "G", "H", "I", "J", "K", "L", "M",
     "N", "O", "P", "Q", "R", "S", "T", "U", "V", "W", "X", "Y", "Z",
     "0", "1", "2", "3", "4", "5", "6", "7", "8", "9", "_", "-"}

IsIdChar(c) == c \in IdChars

\* [0-9A-Za-z_-]{11} matches at position p of url
IdAt(url, p) ==
    /\ p + IdLen - 1 <= Len(url)
    /\ \A k \in p..(p + IdLen - 1) : IsIdChar(url[k])

\* lit matches at position p of url
LitAt(url, lit, p) ==
    /\ p + Len(lit) - 1 <= Len(url)
    /\ \A k \in 1..Len(lit) : url[p + k - 1] = lit[k]

\* re.search of a pattern "(?:lit1|lit2|...)([0-9A-Za-z_-]{11})" from start
\* position p on: the first position where one of the literals, tried in
\* their order, is followed by eleven id characters; the result is group(1).
RECURSIVE SearchFrom(_, _, _)
SearchFrom(url, lits, p) ==
    IF p > Len(url) THEN None
    ELSE LET hits == {k \in 1..Len(lits) :
                         LitAt(url, lits[k], p) /\ IdAt(url, p + Len(lits[k]))}
         IN  IF hits # {}
             THEN LET k == CHOOSE h \in hits : \A g \in hits : h <= g
                      q == p + Len(lits[k])
                  IN  Some(SubSeq(url, q, q + IdLen - 1))
             ELSE SearchFrom(url, lits, p + 1)

\* r'(?:v=|\/)([0-9A-Za-z_-]{11}).*'
Pattern1(url) == SearchFrom(url, <<<<"v", "=">>, <<"/">>>>, 1)

\* r'(?:embed\/)([0-9A-Za-z_-]{11})'
Pattern2(url) == SearchFrom(url, <<<<"e", "m", "b", "e", "d", "/">>>>, 1)

\* A third pattern without its anchors: eleven id characters anywhere.
Pattern3_Unanchored(url) ==
    IF \E p \in 1..Len(url) : IdAt(url, p)
    THEN LET p == CHOOSE q \in 1..Len(url) : IdAt(url, q) /\ \A g \in 1..(q - 1) : ~IdAt(url, g)
         IN  Some(SubSeq(url, p, p + IdLen - 1))
    ELSE None

\* r'^([0-9A-Za-z_-]{11})$': "$" matches at the end and before a newline that
\* ends the string
Pattern3(url) ==
    IF IdAt(url, 1) /\ (Len(url) = IdLen \/ (Len(url) = IdLen + 1 /\ url[Len(url)] = "\n"))
    THEN Some(SubSeq(url, 1, IdLen))
    ELSE None

\* for pattern in patterns: the first pattern that matches gives the id
extract_video_id(url) ==
    IF Pattern1(url) # None THEN Pattern1(url)
    ELSE IF Pattern2(url) # None THEN Pattern2(url)
    ELSE Pattern3(url)

(***************************************************************************)
(* download_video_audio run step by step on the text of a URL.             *)
(***************************************************************************)
\* n times the character c
Run(c, n) == [k \in 1..n |-> c]

\* Texts of up to MaxToken characters that are id characters, but for at most
\* one "." among them.
Tokens ==
    UNION {{Run("a", n)} \cup {[Run("a", n) EXCEPT ![j] = c] : j \in 1..n, c \in {".", "-"}} :
              n \in 0..MaxToken}

UrlPrefixes ==
    {<<>>, <<"v", "=">>, <<"/">>, <<"?">>, <<"e", "m", "b", "e", "d", "/">>,
     <<"h", "t", "t", "p", "s", ":", "/", "/", "y", "o", "u", "t", "u", ".", "b", "e", "/">>,
     <<"w", "a", "t", "c", "h", "?", "v", "=">>}

UrlSuffixes == {<<>>, <<"\n">>, <<"&", "t", "=", "1">>}

Urls == {p \o t \o x : p \in UrlPrefixes, t \in Tokens, x \in UrlSuffixes}

VideoChannel == <<"c">>

InitVideo ==
    /\ NoBatch("download")
    /\ rd = RdIdle
    /\ en = EnIdle
    /\ dl = DlIdle
    /\ \E url \in Urls :
          dv = [url |-> url, at |-> "extract", video_id |-> None, lib_calls |-> 0,
                dir_made |-> FALSE, result |-> None]

\* An extraction whose third pattern is not anchored.
DvExtract_Unanchored ==
    /\ dv.at = "extract"
    /\ LET video_id == IF extract_video_id(dv.url) # None THEN extract_video_id(dv.url)
                       ELSE Pattern3_Unanchored(dv.url)
       IN  IF video_id = None
           THEN dv' = [dv EXCEPT !.at = "returned", !.result = Some(InvalidResult(dv.url))]
           ELSE dv' = [dv EXCEPT !.at = "mkdir", !.video_id = video_id]
    /\ UNCHANGED <<batchVars, rd, en, dl>>

\* video_id = self._extract_video_id(video_url) and the test "if not video_id"
DvExtract ==
    /\ dv.at = "extract"
    /\ LET video_id == extract_video_id(dv.url)
       IN  IF video_id = None
           THEN dv' = [dv EXCEPT !.at = "returned", !.result = Some(InvalidResult(dv.url))]
           ELSE dv' = [dv EXCEPT !.at = "mkdir", !.video_id = video_id]
    /\ UNCHANGED <<batchVars, rd, en, dl>>

\* video_output_dir.mkdir(parents=True, exist_ok=True): it raises, outside
\* the try, or the directory exists afterwards
DvMkdir ==
    /\ dv.at = "mkdir"
    /\ \/ dv' = [dv EXCEPT !.at = "raised"]
       \/ dv' = [dv EXCEPT !.at = "library", !.dir_made = TRUE]
    /\ UNCHANGED <<batchVars, rd, en, dl>>

\* ydl.extract_info(video_url, download=True): it raises, returns None or
\* returns the info
DvLibrary ==
    /\ dv.at = "library"
    /\ \/ dv' = [dv EXCEPT !.lib_calls = @ + 1, !.at = "returned",
                           !.result = Some(FailedResult(dv.url, dv.video_id[1],
                                                        VideoChannel, LibError))]
       \/ dv' = [dv EXCEPT !.lib_calls = @ + 1, !.at = "returned",
                           !.result = Some(FailedResult(dv.url, dv.video_id[1],
                                                        VideoChannel, NoInfoError))]
       \/ dv' = [dv EXCEPT !.lib_calls = @ + 1, !.at = "metadata"]
    /\ UNCHANGED <<batchVars, rd, en, dl>>

\* The metadata file is written and the success result returned, or the write
\* raises and the except branch returns a failure
DvMetadata ==
    /\ dv.at = "metadata"
    /\ \/ dv' = [dv EXCEPT !.at = "returned",
                           !.result = Some(FailedResult(dv.url, dv.video_id[1],
                                                        VideoChannel, OsError))]
       \/ dv' = [dv EXCEPT !.at = "returned",
                           !.result = Some(SuccessResult(dv.url, dv.video_id[1], VideoChannel,
                                ExtractMetadata([id |-> dv.video_id[1]], VideoChannel, dv.url)))]
    /\ UNCHANGED <<batchVars, rd, en, dl>>

NextVideo == DvExtract \/ DvMkdir \/ DvLibrary \/ DvMetadata

SpecVideo == InitVideo /\ [][NextVideo]_vars

(***************************************************************************)
(* Properties of read_channel_list.                                        *)
(***************************************************************************)
IsWhitespace(c) == c = " " \/ c = "\n"

\* s without its leading and trailing whitespace: the one slice of s that has
\* only whitespace before and after it and does not start or end with any.
Trimmed(s) ==
    CHOOSE t \in {SubSeq(s, i, j) : i \in 1..(Len(s) + 1), j \in 0..Len(s)} :
        /\ \E i \in 1..(Len(s) + 1) : \E j \in (i - 1)..Len(s) :
              /\ t = SubSeq(s, i, j)
              /\ \A m \in 1..(i - 1) : IsWhitespace(s[m])
              /\ \A m \in (j + 1)..Len(s) : IsWhitespace(s[m])
        /\ t = <<>> \/ (~IsWhitespace(t[1]) /\ ~IsWhitespace(t[Len(t)]))

MakesEntry(line) ==
    LET t == Trimmed(line)
    IN  t # <<>> /\ t[1] # "#" /\ \E i \in 1..Len(t) : t[i] = ","

EntryOf(line) ==
    LET t == Trimmed(line)
        k == CHOOSE j \in 1..Len(t) : t[j] = "," /\ \A m \in 1..(j - 1) : t[m] # ","
    IN  <<Trimmed(SubSeq(t, 1, k - 1)), Trimmed(SubSeq(t, k + 1, Len(t)))>>

\* C10: after any number of lines read, the channels are, in file order, one
\* (name, url) entry for each line read that after trimming is non-empty, does
\* not start with '#' and contains a comma; name is the trimmed text before
\* the first comma and url the trimmed text after it.  Every other line adds
\* nothing and the lines after it are still parsed.
C10_ReadChannelList ==
    pc = "reader" =>
        LET read == SubSeq(rd.lines, 1, rd.line_num)
            made == SelectSeq(read, MakesEntry)
        IN  /\ Len(rd.channels) = Len(made)
            /\ \A i \in 1..Len(made) : rd.channels[i] = EntryOf(made[i])

\* A file whose first line makes no entry and whose last line "a,," or the
\* like gives a url that holds a comma.
C10_Witness ==
    /\ pc = "reader"
    /\ rd.line_num = Len(rd.lines)
    /\ Len(rd.lines) >= 2
    /\ ~MakesEntry(rd.lines[1])
    /\ Len(rd.channels) = 1
    /\ Contains(rd.channels[1][2], ",")

\* C5 as claimed: whenever max_videos is given, get_channel_videos returns at
\* most max_videos URLs.
C5_AtMostMaxVideos ==
    (pc = "enum" /\ en.done /\ en.max_videos # None) =>
        Len(en.video_urls) <= en.max_videos[1]

\* max_videos = 0 is given and every enumerated entry with an id is returned.
C5_Witness ==
    /\ pc = "enum"
    /\ en.done
    /\ en.max_videos = Some(0)
    /\ Len(en.video_urls) = MaxEntries

(***************************************************************************)
(* Properties of the batch run.                                            *)
(***************************************************************************)
InBatch == pc \notin {"reader", "enum"}

HasCounts(r) == "total_videos" \in DOMAIN r

IsErrorShape(r) == DOMAIN r = {"channel_url", "status", "error"}

\* C1: every ChannelResult of the results mapping that carries counts has
\* successful + failed = total_videos, and total_videos is the number of
\* video URLs enumerated for the channel (zero when the enumeration failed
\* or found nothing, with an empty videos list).
C1_CountsAddUp ==
    InBatch =>
        /\ \A i \in 1..Len(all_results) :
              LET r == all_results[i].v
              IN  HasCounts(r) =>
                      /\ r.successful + r.failed = r.total_videos
                      /\ r.total_videos = Len(r.videos)
        /\ pc = "ckpt_open" =>
              LET r == DictGet(all_results, channel_name)
              IN  /\ HasCounts(r)
                  /\ r.total_videos = Len(video_urls)
                  /\ (enum_raised => r.total_videos = 0 /\ r.videos = <<>>)

\* A channel of two videos, one downloaded and one failed, has been recorded.
C1_Witness ==
    /\ pc = "ckpt_open"
    /\ DictGet(all_results, channel_name).successful = 1
    /\ DictGet(all_results, channel_name).failed = 1

\* C2 as claimed: once the k-th channel has finished (normally, or by an
\* exception recorded as a channel-level error) and the save did not fail,
\* the checkpoint file is the serialization of the results mapping.
C2_CheckpointAfterEveryChannel ==
    (pc = "loop" /\ idx >= 1 /\ CheckpointFile \notin save_failed) => checkpoint = Serialize(all_results)

\* C3: an exception that escapes download_from_channel puts the channel in
\* failed_channels and its error entry in the results mapping and leaves the
\* batch at the head of its loop; once the downloader is built the process
\* ends only after the loop has taken every channel, with exit code 0 and
\* (unless the save fails) the final file holding the results mapping.
C3_ErrorStep ==
    Len(failed_channels') = Len(failed_channels) + 1 =>
        /\ pc = "video" /\ pc' = "loop"
        /\ idx' = idx
        /\ exit_code' = None
        /\ failed_channels' = Append(failed_channels, <<channel_name, OsError>>)
        /\ DictHas(all_results', channel_name)
        /\ DictGet(all_results', channel_name) =
               [channel_url |-> channel_url, status |-> "error", error |-> OsError]

C3_AtExit ==
    (pc = "exit" /\ stats # None) =>
        /\ exit_code = Some(0)
        /\ idx = Len(channels)
        /\ (FinalFile \notin save_failed => final = Serialize(all_results))

C3_ErrorDoesNotAbort == [][C3_ErrorStep]_vars /\ []C3_AtExit

\* The first channel raised, the second was downloaded, the final file is written.
C3_Witness ==
    /\ pc = "exit"
    /\ Len(failed_channels) = 1
    /\ failed_channels[1][1] = <<"a">>
    /\ DictHas(all_results, <<"b">>)
    /\ HasCounts(DictGet(all_results, <<"b">>))
    /\ DictGet(all_results, <<"b">>).successful = 1
    /\ final = Serialize(all_results)

\* C4 as claimed: when the enumeration call raised, the channel's entry in the
\* results mapping is of the error shape.
C4_EnumErrorIsChannelError ==
    (pc = "ckpt_open" /\ enum_raised) =>
        IsErrorShape(DictGet(all_results, channel_name))

\* C4 as amended: when the enumeration call raised, get_channel_videos returns
\* the empty list; the batch records a ChannelResult with zero counts and an
\* empty videos list, no failed channel, and goes on to the next channel.
C4_EnumErrorIsEmptyResult ==
    (InBatch /\ enum_raised) =>
        /\ pc \in {"record", "ckpt_open", "ckpt_write", "loop"}
        /\ exit_code = None
        /\ video_urls = <<>>
        /\ \A i \in 1..Len(failed_channels) : failed_channels[i][1] # channel_name
               \/ \E j \in 1..(idx - 1) : channels[j][1] = channel_name
        /\ pc # "record" =>
              DictGet(all_results, channel_name) =
                  [channel_url |-> channel_url, total_videos |-> 0, successful |-> 0,
                   failed |-> 0, videos |-> <<>>]

\* The enumeration of the first channel raised and the loop is back at its head.
C4_Witness ==
    /\ pc = "loop"
    /\ enum_raised
    /\ idx = 1
    /\ idx < Len(channels)

\* The channels main would process: the parsed file after the cap and the offset.
ToProcess ==
    IF file.state = "ok" THEN LimitedChannels(ParseLines(<<>>, file.lines), args) ELSE <<>>

\* C6 as claimed: when no channel is left to process after the cap and the
\* offset (or the file is missing, unreadable or without entries), the
\* process exits with code 1 at once, with no downloader built.
C6_ExitsWhenNothingToProcess ==
    (InBatch /\ pc \notin {"main", "limits", "killed"} /\ ToProcess = <<>>) =>
        pc = "exit" /\ exit_code = Some(1) /\ stats = None

\* Whether result r of a video of channel name is in the checkpoint file ck.
InCheckpoint(ck, name, r) ==
    /\ ck.state = "json"
    /\ DictHas(ck.data, name)
    /\ HasCounts(DictGet(ck.data, name))
    /\ \E m \in 1..Len(DictGet(ck.data, name).videos) :
          DictGet(ck.data, name).videos[m] = r

\* Every video result the results mapping holds is in the checkpoint file ck.
RecordedInCheckpoint(ck) ==
    \A i \in 1..Len(all_results) :
        HasCounts(all_results[i].v) =>
            \A j \in 1..Len(all_results[i].v.videos) :
                InCheckpoint(ck, all_results[i].k, all_results[i].v.videos[j])

C8_NoPerVideoRaise ==
    InBatch =>
        /\ failed_channels = <<>>
        /\ pc = "record" => Len(results) = Len(video_urls)

\* A result of download_video_audio as the data model describes it.
WellFormed(r) ==
    /\ r.status \in {"success", "failed"}
    /\ r.status = "success" <=> "metadata" \in DOMAIN r
    /\ r.status = "success" <=> "output_dir" \in DOMAIN r
    /\ r.status = "success" <=> "metadata_file" \in DOMAIN r
    /\ r.status = "failed" <=> "error" \in DOMAIN r
    /\ r.status = "success" =>
          /\ r.output_dir \in dirs
          /\ r.metadata_file \in metaFiles
          /\ r.metadata.video_id = r.video_id
    /\ r.status = "failed" => r.error \in {"Invalid video URL", LibError, OsError, NoInfoError}

\* C9: every VideoResult download_video_audio returned has status success or
\* failed; it has a metadata block, output_dir and metadata_file exactly when
\* it is a success, and an error string exactly when it is failed; a success
\* is returned only once the output directory and the metadata file exist.
C9_VideoResultShape ==
    InBatch => \A j \in 1..Len(results) : WellFormed(results[j])

\* A channel run has returned a success and a result for an invalid URL.
C9_Witness ==
    /\ pc = "record"
    /\ \E j \in 1..Len(results) : results[j].status = "success"
    /\ \E j \in 1..Len(results) : DOMAIN results[j] = {"video_url", "status", "error"}

(***************************************************************************)
(* Properties of the pacing of download_from_channel.                      *)
(***************************************************************************)
IsSleep(ev) == ev[1] = "sleep"

Sleeps(trace) == {k \in 1..Len(trace) : IsSleep(trace[k])}

\* The calls, returns and sleeps come in the order call 1, return 1, sleep,
\* call 2, return 2, sleep, ..., call m, return m: a sleep only after the
\* return of video i and before the call for video i + 1, for i < m.
PacedOrder(trace, m) ==
    /\ Len(trace) <= 3 * m - 1
    /\ \A k \in 1..Len(trace) :
          LET i == ((k - 1) \div 3) + 1
          IN  CASE (k - 1) % 3 = 0 -> trace[k] = <<"call", i>>
                [] (k - 1) % 3 = 1 -> trace[k][1] = "return" /\ trace[k][2] = i
                [] (k - 1) % 3 = 2 -> IsSleep(trace[k]) /\ i < m

\* The pacing of the call, with the sleep durations within lo..hi.
PacedWithin(lo, hi) ==
    /\ dl.m >= 1 => PacedOrder(dl.trace, dl.m)
    /\ (dl.at = "returned" /\ dl.m >= 1) =>
          /\ Cardinality(Sleeps(dl.trace)) = dl.m - 1
          /\ Len(dl.trace) = 3 * dl.m - 1
    /\ \A k \in Sleeps(dl.trace) : lo <= dl.trace[k][2] /\ dl.trace[k][2] <= hi

ElevenAfter(url, p) ==
    /\ p + 11 <= Len(url)
    /\ \A k \in 1..11 : url[p + k] \in IdChars

\* No video id can be extracted from url: nowhere in it do eleven id
\* characters follow "v=" or "/", and url is not eleven id characters alone
\* (with or without a newline at its end).
NoVideoId(url) ==
    /\ \A p \in 1..Len(url) :
          (url[p] = "/" \/ (p >= 2 /\ url[p - 1] = "v" /\ url[p] = "=")) => ~ElevenAfter(url, p)
    /\ ~(ElevenAfter(url, 0) /\ (Len(url) = 11 \/ (Len(url) = 12 /\ url[12] = "\n")))

\* C12: when no video id can be extracted from the URL, download_video_audio
\* goes from the extraction straight to its return, the result is the failed
\* VideoResult with the error "Invalid video URL" and nothing else but the
\* URL, the library has not been invoked and no output directory created;
\* and when an id can be extracted the call does not return that result.
C12_NoIdFailsAtOnce ==
    (pc = "download" /\ dv.at # "extract") =>
        IF NoVideoId(dv.url)
        THEN /\ dv.at = "returned"
             /\ dv.result = Some([video_url |-> dv.url, status |-> "failed",
                                  error |-> "Invalid video URL"])
             /\ dv.lib_calls = 0
             /\ ~dv.dir_made
             /\ dv.video_id = None
        ELSE /\ dv.video_id # None
             /\ dv.result # None => "video_id" \in DOMAIN dv.result[1]

\* A URL of twelve id characters, with no "v=" or "/" before them, has been
\* refused.
C12_Witness ==
    /\ pc = "download"
    /\ dv.at = "returned"
    /\ Len(dv.url) = 12
    /\ \A k \in 1..12 : IsIdChar(dv.url[k])
    /\ dv.result[1].error = "Invalid video URL"
    /\ dv.lib_calls = 0

(***************************************************************************)
(* Properties of the channels the batch run takes.                         *)
(***************************************************************************)
\* The entries of the file with index i (from 0), start_from <= i < min(cap, n),
\* or start_from <= i < n without a cap, in file order.
ClaimedChannels ==
    LET parsed == IF file.state = "ok" THEN ParseLines(<<>>, file.lines) ELSE <<>>
        n == Len(parsed)
        hi == IF args.max_channels = None THEN n
              ELSE IF args.max_channels[1] < n THEN args.max_channels[1] ELSE n
        lo == IF args.start_from > 0 THEN args.start_from ELSE 0
    IN  IF hi > lo THEN [k \in 1..(hi - lo) |-> parsed[lo + k]] ELSE <<>>

\* C13 as claimed: the channels the loop of main goes through, one per
\* iteration and in order, are the entries of the file with index i,
\* start_from <= i < min(max_channels, n); the channel in progress is the
\* idx-th of them.
C13_ProcessesCappedRange ==
    (InBatch /\ pc \notin {"main", "limits", "killed"}) =>
        /\ channels = ClaimedChannels
        /\ idx <= Len(channels)

\* With --max-channels 0 the first channel of the file is being processed.
C13_Witness ==
    /\ pc = "enumerate"
    /\ args.max_channels = Some(0)
    /\ idx = 1
    /\ channel_name = <<"a">>

(***************************************************************************)
(* Properties of the counters of the downloader.                           *)
(***************************************************************************)
\* The sum of field f over the ChannelResults of the mapping d.
RECURSIVE SumField(_, _)
SumField(d, f) ==
    IF d = <<>> THEN 0 ELSE Head(d).v[f] + SumField(Tail(d), f)

\* No download_from_channel call is in progress and every call made so far
\* has returned its results.
BetweenCalls ==
    /\ pc \in {"loop", "final_open", "final_write", "exit"}
    /\ stats # None
    /\ failed_channels = <<>>

\* C14 as claimed: between download_from_channel calls that all returned,
\* successful + failed = total_videos in the counters of the downloader, and
\* (when the results mapping holds the result of each call) successful and
\* failed are the numbers of success and failed VideoResults returned so far.
C14_CountersMatchResults ==
    BetweenCalls =>
        /\ stats[1].successful + stats[1].failed = stats[1].total_videos
        /\ Len(all_results) = idx =>
              /\ stats[1].successful = SumField(all_results, "successful")
              /\ stats[1].failed = SumField(all_results, "failed")

\* One URL was enumerated and its failed result returned, and the counters
\* say one video in total, none successful and none failed.
C14_Witness ==
    /\ pc = "loop"
    /\ idx = 1
    /\ failed_channels = <<>>
    /\ Len(all_results) = 1
    /\ all_results[1].v.failed = 1
    /\ stats[1] = [total_videos |-> 1, successful |-> 0, failed |-> 0, skipped |-> 0]

(***************************************************************************)
(* Properties of the results mapping at the end of the batch run.          *)
(***************************************************************************)
\* C15 as claimed: whenever the loop of main is at its head or over, the
\* results mapping holds, in processing order, one entry for each channel
\* processed so far, under that channel's name and with that channel's URL;
\* and the final file, once written, holds them all.
C15_OneResultPerChannel ==
    (pc \in {"loop", "final_open", "final_write", "exit"} /\ stats # None) =>
        /\ Len(all_results) = idx
        /\ \A i \in 1..Len(all_results) :
              /\ all_results[i].k = channels[i][1]
              /\ all_results[i].v.channel_url = channels[i][2]
        /\ (pc = "exit" /\ final.state = "json") => Len(final.data) = Len(channels)

\* Two entries named a were processed, a video of the first was downloaded,
\* and the final file holds one result for a, with no video.
C15_Witness ==
    /\ pc = "exit"
    /\ Len(channels) = 2
    /\ channels[1][1] = channels[2][1]
    /\ metaFiles # {}
    /\ final = Serialize(all_results)
    /\ Len(final.data) = 1
    /\ HasCounts(final.data[1].v)
    /\ final.data[1].v.total_videos = 0

====
